---- MODULE Spec2Model ----
\* Model of src/tree/tree.py: the ASCII tree generator (TreeConfig,
\* TreeGenerator and the part of main that drives one run).
\*
\* Strings are sequences of one-character strings, so that startswith,
\* rstrip, lower, fnmatch and the comparison of names are computed.
\* A path is the sequence of entry names leading from the tree root to it.
EXTENDS Integers, Sequences, FiniteSets, TLC

\* ------------------------------------------------------------------ bounds
\* Largest value of --depth drawn for the configuration.
MaxDepthCfg == 3
\* Largest value of --max-files drawn for the configuration.
MaxFilesCfg == 3
\* Depth at which the model stops following an unbounded recursion.
MaxStack == MaxDepthCfg + 2

\* "not set" value of the two optional integers of TreeConfig.
None == 0 - 1

\* ------------------------------------------------------------ characters
\* Code point of every character used in names and patterns.
Code(c) ==
    CASE c = " " -> 32 [] c = "#" -> 35 [] c = "*" -> 42 [] c = "." -> 46
      [] c = "/" -> 47 [] c = "?" -> 63 [] c = "A" -> 65 [] c = "B" -> 66
      [] c = "a" -> 97 [] c = "b" -> 98 [] c = "c" -> 99 [] c = "d" -> 100
      [] c = "e" -> 101 [] c = "f" -> 102 [] c = "g" -> 103 [] c = "h" -> 104
      [] c = "k" -> 107 [] c = "l" -> 108 [] c = "m" -> 109 [] c = "n" -> 110
      [] c = "o" -> 111 [] c = "p" -> 112 [] c = "q" -> 113 [] c = "r" -> 114
      [] c = "w" -> 119 [] c = "x" -> 120 [] c = "y" -> 121 [] c = "z" -> 122

\* str.lower() on one character.
LowerChar(c) == CASE c = "A" -> "a" [] c = "B" -> "b" [] OTHER -> c

\* str.lower()
Lower(s) == [i \in 1..Len(s) |-> LowerChar(s[i])]

\* str.startswith(c) for a one-character prefix.
StartsWith(s, c) == Len(s) > 0 /\ s[1] = c

\* str.rstrip(c)
RECURSIVE RStrip(_, _)
RStrip(s, c) ==
    IF Len(s) > 0 /\ s[Len(s)] = c THEN RStrip(SubSeq(s, 1, Len(s) - 1), c) ELSE s

\* str.strip() (blanks only; the model's lines hold no other white space)
RECURSIVE LStrip(_, _)
LStrip(s, c) == IF Len(s) > 0 /\ s[1] = c THEN LStrip(Tail(s), c) ELSE s

Strip(s) == LStrip(RStrip(s, " "), " ")

\* c in s
Contains(s, c) == \E i \in 1..Len(s) : s[i] = c

\* fnmatch.fnmatch(name, pat) on POSIX (normcase is the identity there):
\* '*' matches any run of characters, '/' included, '?' exactly one,
\* every other character itself.  The patterns drawn hold no '['.
RECURSIVE fnmatch(_, _)
fnmatch(name, pat) ==
    IF pat = <<>> THEN name = <<>>
    ELSE IF Head(pat) = "*"
         THEN fnmatch(name, Tail(pat)) \/ (name # <<>> /\ fnmatch(Tail(name), pat))
    ELSE IF name = <<>> THEN FALSE
    ELSE IF Head(pat) = "?" THEN fnmatch(Tail(name), Tail(pat))
    ELSE Head(pat) = Head(name) /\ fnmatch(Tail(name), Tail(pat))

\* '/'.join(parts)
RECURSIVE JoinPath(_)
JoinPath(parts) ==
    IF parts = <<>> THEN <<>>
    ELSE IF Len(parts) = 1 THEN parts[1]
    ELSE parts[1] \o <<"/">> \o JoinPath(Tail(parts))

\* Lexicographic order of two sequences of integers (Python's order on
\* strings by code point, and on numbers as one-element sequences).
RECURSIVE KeyLess(_, _)
KeyLess(k1, k2) ==
    IF k2 = <<>> THEN FALSE
    ELSE IF k1 = <<>> THEN TRUE
    ELSE IF Head(k1) # Head(k2) THEN Head(k1) < Head(k2)
    ELSE KeyLess(Tail(k1), Tail(k2))

\* All orders in which the elements of a finite set can be enumerated.
RECURSIVE Perms(_)
Perms(S) ==
    IF S = {} THEN {<<>>}
    ELSE UNION {{<<x>> \o p : p \in Perms(S \ {x})} : x \in S}

\* ------------------------------------------------------------ file systems
\* A file system maps an inode number to its node; node 1 is the tree root.
\* A child is a directory entry: its name, whether the entry itself is a
\* symbolic link, and the inode it resolves to (0: the link dangles).
\* listing is the outcome of iterdir() on a directory; stat_fails says that
\* stat() on the node raises OSError although the type tests answered;
\* mode is st_mode (0o100644 for the files, 0o40755 for the directories).
Child(name, link, target) == [name |-> name, link |-> link, target |-> target]

FileNode(size, mtime) ==
    [kind |-> "file", size |-> size, mtime |-> mtime, mode |-> 33188,
     listing |-> "ok", stat_fails |-> FALSE, children |-> {}]

DirNode(mtime, listing, children) ==
    [kind |-> "dir", size |-> 4096, mtime |-> mtime, mode |-> 16877,
     listing |-> listing, stat_fails |-> FALSE, children |-> children]

\* Nested directories with several files.
FS1 ==
    1 :> DirNode(5, "ok", {Child(<<"d">>, FALSE, 2), Child(<<"e">>, FALSE, 3),
                           Child(<<"f">>, FALSE, 4), Child(<<"g">>, FALSE, 5)})
    @@ 2 :> DirNode(2, "ok", {Child(<<"x">>, FALSE, 6), Child(<<"y">>, FALSE, 7),
                              Child(<<"n">>, FALSE, 8)})
    @@ 3 :> DirNode(4, "ok", {Child(<<"w">>, FALSE, 10)})
    @@ 10 :> DirNode(6, "ok", {Child(<<"h">>, FALSE, 11)})
    @@ 11 :> FileNode(7, 8)
    @@ 4 :> FileNode(10, 3)
    @@ 5 :> FileNode(2048, 1)
    @@ 6 :> FileNode(0, 2)
    @@ 7 :> FileNode(1536, 6)
    @@ 8 :> DirNode(1, "ok", {Child(<<"z">>, FALSE, 9)})
    @@ 9 :> FileNode(7, 7)

\* Siblings with equal sort keys, a hidden file, an object file.
FS2 ==
    1 :> DirNode(5, "ok", {Child(<<"a">>, FALSE, 2), Child(<<"A">>, FALSE, 3),
                           Child(<<"b">>, FALSE, 4), Child(<<"B">>, FALSE, 5),
                           Child(<<".", "h">>, FALSE, 6)})
    @@ 2 :> DirNode(3, "ok", {Child(<<"c", ".", "o">>, FALSE, 7),
                              Child(<<"c">>, FALSE, 8)})
    @@ 3 :> DirNode(3, "ok", {})
    @@ 4 :> FileNode(5, 4)
    @@ 5 :> FileNode(5, 4)
    @@ 6 :> FileNode(1, 1)
    @@ 7 :> FileNode(3, 2)
    @@ 8 :> FileNode(2, 9)

\* Symbolic links: two directory cycles and a dangling link.
FS3 ==
    1 :> DirNode(5, "ok", {Child(<<"l">>, TRUE, 1), Child(<<"k">>, TRUE, 0),
                           Child(<<"f">>, FALSE, 3), Child(<<"d">>, FALSE, 2)})
    @@ 2 :> DirNode(2, "ok", {Child(<<"m">>, TRUE, 2), Child(<<"g">>, FALSE, 4)})
    @@ 3 :> FileNode(10, 3)
    @@ 4 :> FileNode(20, 1)

\* Directories that cannot be listed and a file whose stat() fails.
FS4 ==
    1 :> DirNode(5, "ok", {Child(<<"p">>, FALSE, 2), Child(<<"r">>, FALSE, 3),
                           Child(<<"f">>, FALSE, 4)})
    @@ 2 :> DirNode(2, "denied", {Child(<<"x">>, FALSE, 6)})
    @@ 3 :> DirNode(3, "ok", {Child(<<"h">>, FALSE, 5), Child(<<"q">>, FALSE, 7)})
    @@ 4 :> [FileNode(10, 3) EXCEPT !.stat_fails = TRUE]
    @@ 5 :> FileNode(20, 1)
    @@ 6 :> FileNode(1, 1)
    @@ 7 :> DirNode(1, "ioerr", {Child(<<"y">>, FALSE, 6)})

FileSystems == <<FS1, FS2, FS3, FS4>>

\* ---------------------------------------------------------- configuration
\* TreeConfig.__init__: the defaults.  gitignore_patterns is a Python set;
\* it is kept here as the sequence in which the set is iterated.
TreeConfig ==
    [max_depth |-> None, max_files |-> None, dirs_only |-> FALSE,
     files_only |-> FALSE, show_hidden |-> FALSE, follow_links |-> FALSE,
     use_gitignore |-> FALSE, custom_ignore |-> <<>>, sort_by |-> "name",
     reverse_sort |-> FALSE, show_size |-> FALSE, show_permissions |-> FALSE,
     full_path |-> FALSE, gitignore_patterns |-> <<>>]

OptDepth == {None} \cup 0..MaxDepthCfg
OptFiles == {None} \cup 0..MaxFilesCfg
SortBys == {"name", "size", "modified"}

\* Configurations main can build from the command line, in families that
\* each vary some of the options around the defaults.
LimitConfigs ==
    {[TreeConfig EXCEPT !.max_depth = d, !.max_files = m, !.dirs_only = t[1],
                        !.files_only = t[2], !.follow_links = l, !.sort_by = s,
                        !.reverse_sort = r] :
        d \in OptDepth, m \in OptFiles, t \in BOOLEAN \X BOOLEAN, l \in BOOLEAN,
        s \in SortBys, r \in BOOLEAN}

SortConfigs ==
    {[TreeConfig EXCEPT !.sort_by = s, !.reverse_sort = r, !.dirs_only = t[1],
                        !.files_only = t[2], !.show_hidden = h, !.max_files = m] :
        s \in SortBys, r \in BOOLEAN, t \in BOOLEAN \X BOOLEAN, h \in BOOLEAN,
        m \in {None, 2}}

FormatConfigs ==
    {[TreeConfig EXCEPT !.show_size = f[1], !.show_permissions = f[2],
                        !.full_path = f[3], !.sort_by = s, !.max_depth = d] :
        f \in BOOLEAN \X BOOLEAN \X BOOLEAN, s \in SortBys, d \in {None, 2}}

IgnorePatterns == {<<>>, <<<<"*", ".", "o">>>>, <<<<"?">>, <<"c", "*">>>>}

IgnoreConfigs ==
    {[TreeConfig EXCEPT !.show_hidden = h, !.custom_ignore = c, !.use_gitignore = g] :
        h \in BOOLEAN, c \in IgnorePatterns, g \in BOOLEAN}

Configs == LimitConfigs \cup SortConfigs \cup FormatConfigs \cup IgnoreConfigs

\* Contents of the .gitignore file of the working directory, line by line
\* (<<>>: there is no such file).
GitignoreFiles ==
    {<<>>,
     << <<"#", "c">>, <<>>, <<"e", "/">>, <<" ", "y">> >>,
     << <<"d", "/", "x">>, <<"g">> >>,
     << <<"d", "/", "n", "/">>, <<"*", ".", "o">> >>}

\* Where the tree root lies: under the working directory, at the relative
\* path rel, or outside it.
AtRoot == [under |-> TRUE, rel |-> <<>>]

RootPlacements ==
    {AtRoot, [under |-> TRUE, rel |-> << <<"d">> >>], [under |-> FALSE, rel |-> <<>>]}

\* ------------------------------------------------------------------ state
VARIABLES
    fs,            \* index in FileSystems of the directory tree on disk
    root_rel,      \* placement of the tree root w.r.t. the working directory
    config,        \* TreeGenerator.config
    file_count,    \* TreeGenerator.file_count
    dir_count,     \* TreeGenerator.dir_count
    stack,         \* active calls of generate, outermost first
    pc,            \* "start", "running", "done", "raised", "cut"
    exc,           \* the exception that left generate, "" if none
    tree,          \* the value the top-level generate returned
    run,           \* number of the run of main (1 or 2)
    first,         \* tree and counters of run 1, kept for the comparison
    ign_path,      \* argument of the ignore policy applied on its own
    ign_result     \* its result, "" before the call

vars == <<fs, root_rel, config, file_count, dir_count, stack, pc, exc, tree,
          run, first, ign_path, ign_result>>

FS == FileSystems[fs]

\* Box drawing segments (class constants of TreeGenerator).
PIPE == "PIPE"
TEE == "TEE"
ELBOW == "ELBOW"
BLANK == "BLANK"

\* -------------------------------------------------------- path predicates
\* Path.is_dir(), is_file(), is_symlink() of a directory entry e; the first
\* two follow a symbolic link and answer False when it dangles.
IsDir(e) == e.target # 0 /\ FS[e.target].kind = "dir"
IsFile(e) == e.target # 0 /\ FS[e.target].kind = "file"
IsSymlink(e) == e.link
\* Path.stat() raises OSError.
StatFails(e) == e.target = 0 \/ FS[e.target].stat_fails

\* ----------------------------------------------------------- ignore policy
\* _load_gitignore_patterns: the set of patterns read from the lines.
LoadGitignore(lines) ==
    {Strip(lines[i]) : i \in {j \in 1..Len(lines) :
        Strip(lines[j]) # <<>> /\ ~StartsWith(Strip(lines[j]), "#")}}

\* path.relative_to(Path.cwd()) as a string; path is relative to the root.
RelPath(path) == JoinPath(root_rel.rel \o path)

\* The loop over gitignore_patterns in _should_ignore, from pattern i on.
RECURSIVE GitignoreLoop(_, _, _)
GitignoreLoop(path, pats, i) ==
    IF i > Len(pats) THEN "False"
    ELSE LET pattern == RStrip(pats[i], "/") IN
         IF fnmatch(path[Len(path)], pattern) THEN "True"
         ELSE IF Contains(pattern, "/")
              THEN IF ~root_rel.under THEN "ValueError"
                   ELSE IF fnmatch(RelPath(path), pattern) THEN "True"
                   ELSE GitignoreLoop(path, pats, i + 1)
         ELSE GitignoreLoop(path, pats, i + 1)

\* _should_ignore(path): "True", "False", or "ValueError" when relative_to
\* raises because the path is not under the working directory.
ShouldIgnore(path) ==
    LET name == path[Len(path)] IN
    IF ~config.show_hidden /\ StartsWith(name, ".") THEN "True"
    ELSE IF \E i \in 1..Len(config.custom_ignore) : fnmatch(name, config.custom_ignore[i])
         THEN "True"
    ELSE IF config.use_gitignore THEN GitignoreLoop(path, config.gitignore_patterns, 1)
    ELSE "False"

\* ------------------------------------------------------------------ listing
\* The key functions of _get_sort_key, as sequences of integers.
SortKey(e) ==
    IF config.sort_by = "size" THEN (IF IsFile(e) THEN <<FS[e.target].size>> ELSE <<0>>)
    ELSE IF config.sort_by = "modified" THEN <<FS[e.target].mtime>>
    ELSE [i \in 1..Len(e.name) |-> Code(Lower(e.name)[i])]

\* The key function raises: it calls stat() and stat() fails.
SortKeyFails(e) ==
    \/ config.sort_by = "size" /\ IsFile(e) /\ StatFails(e)
    \/ config.sort_by = "modified" /\ StatFails(e)

\* e1 must come before e2 although e2 came first: the order list.sort and
\* sorted establish with key= and reverse=.
Precedes(e1, e2) ==
    IF config.reverse_sort THEN KeyLess(SortKey(e2), SortKey(e1))
    ELSE KeyLess(SortKey(e1), SortKey(e2))

\* Stable insertion of e in a sorted sequence, behind its equals.
RECURSIVE Insert(_, _)
Insert(sorted, e) ==
    IF sorted = <<>> THEN <<e>>
    ELSE IF Precedes(e, sorted[Len(sorted)])
         THEN Append(Insert(SubSeq(sorted, 1, Len(sorted) - 1), e), sorted[Len(sorted)])
    ELSE Append(sorted, e)

\* sorted(entries, key=..., reverse=...): Python's sort is stable, also
\* with reverse=True.
RECURSIVE Sorted(_)
Sorted(entries) ==
    IF entries = <<>> THEN <<>>
    ELSE Insert(Sorted(SubSeq(entries, 1, Len(entries) - 1)), entries[Len(entries)])

\* "Filter by type" of _get_entries.
TypeFilter(entries) ==
    IF config.dirs_only THEN SelectSeq(entries, IsDir)
    ELSE IF config.files_only THEN SelectSeq(entries, IsFile)
    ELSE entries

\* Mutant of Regroup: the list is left as the first sort made it.
RegroupSkipped(entries) == entries

\* "Separate directories and files" of _get_entries.
Regroup(entries) ==
    IF ~config.files_only /\ ~config.dirs_only
    THEN Sorted(SelectSeq(entries, IsDir)) \o Sorted(SelectSeq(entries, IsFile))
    ELSE entries

\* _get_entries(directory): directory is the node listed and dirpath its
\* path; listing is the order in which iterdir() yields the children.
\* exc is "" when the call returns and the exception when it raises.
GetEntries(directory, dirpath, listing) ==
    LET ignored(e) == ShouldIgnore(Append(dirpath, e.name))
        kept == TypeFilter(SelectSeq(listing, LAMBDA e : ignored(e) = "False"))
    IN  IF FS[directory].listing = "denied" THEN [exc |-> "", entries |-> <<>>]
        ELSE IF FS[directory].listing = "ioerr" THEN [exc |-> "OSError", entries |-> <<>>]
        ELSE IF \E i \in 1..Len(listing) : ignored(listing[i]) = "ValueError"
             THEN [exc |-> "ValueError", entries |-> <<>>]
        ELSE IF \E i \in 1..Len(kept) : SortKeyFails(kept[i])
             THEN [exc |-> "FileNotFoundError", entries |-> <<>>]
        ELSE [exc |-> "", entries |-> Regroup(Sorted(kept))]

\* ---------------------------------------------------------------- formatting
Units == <<"B", "KB", "MB", "GB", "TB", "PB">>

\* round(10 * num / den) to the nearest integer, ties to even: "%.1f".
Round1(num, den) ==
    LET q == (10 * num) \div den
        r == (10 * num) % den
    IN  IF 2 * r > den \/ (2 * r = den /\ q % 2 = 1) THEN q + 1 ELSE q

\* The loop of _format_size: den is the power of 1024 divided out so far.
RECURSIVE FormatSizeLoop(_, _, _)
FormatSizeLoop(size, den, u) ==
    IF u > 5 THEN [shown |-> TRUE, tenths |-> Round1(size, den), unit |-> Units[6]]
    ELSE IF size < 1024 * den
         THEN [shown |-> TRUE, tenths |-> Round1(size, den), unit |-> Units[u]]
    ELSE FormatSizeLoop(size, 1024 * den, u + 1)

\* _format_size(size): the number in tenths and the unit.
FormatSize(size) == FormatSizeLoop(size, 1, 1)

NoSize == [shown |-> FALSE, tenths |-> 0, unit |-> ""]
NoPerms == [shown |-> FALSE, digits |-> <<>>]

\* oct(mode)[-3:]
Perms3(mode) ==
    [shown |-> TRUE, digits |-> <<(mode \div 64) % 8, (mode \div 8) % 8, mode % 8>>]

\* _format_entry(path): the parts of the text of an entry line.
FormatEntry(e, path) ==
    [name  |-> IF config.full_path THEN path ELSE <<e.name>>,
     full  |-> config.full_path,
     slash |-> IsDir(e),
     size  |-> IF config.show_size /\ IsFile(e) /\ ~StatFails(e)
               THEN FormatSize(FS[e.target].size) ELSE NoSize,
     perms |-> IF config.show_permissions /\ ~StatFails(e)
               THEN Perms3(FS[e.target].mode) ELSE NoPerms]

\* The text of the marker line.
LimitText ==
    [name |-> << <<".", ".", ".">> >>, full |-> FALSE, slash |-> FALSE,
     size |-> NoSize, perms |-> NoPerms]

\* ------------------------------------------------------------------ generate
\* Mutant of DepthReached: the limit is taken one call too late.
DepthReachedLate(depth) == config.max_depth # None /\ depth > config.max_depth

\* "Check depth limit"
DepthReached(depth) == config.max_depth # None /\ depth >= config.max_depth

\* Mutant of LimitReached: the budget is found used up one file too late.
LimitReachedLate(count) == config.max_files # None /\ count > config.max_files

\* "Check file count limit"
LimitReached(count) == config.max_files # None /\ count >= config.max_files

\* is_last = i == len(entries) - 1, with i counted from 1 here.
IsLast(i, n) == i = n

\* connector = self.ELBOW if is_last else self.TEE
Connector(is_last) == IF is_last THEN ELBOW ELSE TEE

\* Mutant of Extension: the continuation forgets the last sibling.
ExtensionPipe(is_last) == PIPE

\* extension = self.BLANK if is_last else self.PIPE
Extension(is_last) == IF is_last THEN BLANK ELSE PIPE

\* Mutant of ShouldRecurse: symbolic links are followed unasked.
ShouldRecurseAlways(e) == IsDir(e)

\* "Recurse into directories": the two nested conditions.
ShouldRecurse(e) == IsDir(e) /\ (config.follow_links \/ ~IsSymlink(e))

\* Mutant of Counted: every entry is counted as a file.
CountedAsFile(e, dirs, files) == <<dirs, files + 1>>

\* The new value of <<dir_count, file_count>> after the line of e.
Counted(e, dirs, files) == IF IsDir(e) THEN <<dirs + 1, files>> ELSE <<dirs, files + 1>>

\* The root of the tree as an entry: main resolves it, so it is no link.
RootEntry == Child(<<>>, FALSE, 1)

Top == stack[Len(stack)]

\* A call generate(directory, prefix, depth) made with the callers in base
\* on the stack: it returns "" at once, raises, or starts its loop.  When
\* it raises nothing catches the exception: the run ends, and the stack
\* is left as it was at that moment.
Enter(base, e, path, prefix, depth, listing) ==
    LET got == GetEntries(e.target, path, listing) IN
    IF DepthReached(depth) \/ LimitReached(file_count) \/ ~IsDir(e)
    THEN /\ stack' = base
         /\ pc' = IF base = <<>> THEN "done" ELSE "running"
         /\ UNCHANGED <<exc, tree>>
    ELSE IF got.exc # ""
    THEN /\ stack' = base
         /\ pc' = "raised"
         /\ exc' = got.exc
         /\ UNCHANGED tree
    ELSE /\ stack' = Append(base, [directory |-> path, node |-> e.target,
                                   prefix |-> prefix, depth |-> depth,
                                   entries |-> got.entries, i |-> 1,
                                   output |-> <<>>, broke |-> FALSE])
         /\ pc' = "running"
         /\ UNCHANGED <<exc, tree>>

\* main: tree = generator.generate(root_path)
Start ==
    /\ pc = "start"
    /\ \E listing \in Perms(FS[1].children) : Enter(<<>>, RootEntry, <<>>, <<>>, 0, listing)
    /\ UNCHANGED <<fs, root_rel, config, file_count, dir_count, run, first,
                   ign_path, ign_result>>

\* Mutant of Marker: the loop goes on to the next entry instead of
\* breaking.
MarkerContinue ==
    /\ pc = "running"
    /\ stack[Len(stack)].i <= Len(stack[Len(stack)].entries) /\ ~stack[Len(stack)].broke
    /\ LimitReached(file_count)
    /\ stack' = [stack EXCEPT ![Len(stack)] =
                    [@ EXCEPT !.output = Append(@, [kind |-> "limit",
                                                   prefix |-> stack[Len(stack)].prefix,
                                                   connector |-> ELBOW, text |-> LimitText]),
                              !.i = @ + 1]]
    /\ UNCHANGED <<fs, root_rel, config, file_count, dir_count, pc, exc, tree,
                   run, first, ign_path, ign_result>>

\* One iteration of the loop that hits the file limit: the marker, break.
Marker ==
    /\ pc = "running"
    /\ Top.i <= Len(Top.entries) /\ ~Top.broke
    /\ LimitReached(file_count)
    /\ stack' = [stack EXCEPT ![Len(stack)] =
                    [@ EXCEPT !.output = Append(@, [kind |-> "limit", prefix |-> Top.prefix,
                                                   connector |-> ELBOW, text |-> LimitText]),
                              !.broke = TRUE]]
    /\ UNCHANGED <<fs, root_rel, config, file_count, dir_count, pc, exc, tree,
                   run, first, ign_path, ign_result>>

\* One iteration of the loop below the limit: the line of the entry, the
\* counters, and the recursive call up to the start of its own loop.  A
\* call deeper than MaxStack is not followed: the run is left at "cut".
Emit ==
    /\ pc = "running"
    /\ Top.i <= Len(Top.entries) /\ ~Top.broke
    /\ ~LimitReached(file_count)
    /\ LET f == Top
           entry == f.entries[f.i]
           path == Append(f.directory, entry.name)
           is_last == IsLast(f.i, Len(f.entries))
           line == [kind |-> "entry", prefix |-> f.prefix,
                    connector |-> Connector(is_last), text |-> FormatEntry(entry, path)]
           counts == Counted(entry, dir_count, file_count)
           caller == [stack EXCEPT ![Len(stack)] =
                        [@ EXCEPT !.output = Append(@, line), !.i = @ + 1]]
       IN  /\ dir_count' = counts[1]
           /\ file_count' = counts[2]
           /\ IF ShouldRecurse(entry) /\ f.depth + 1 <= MaxStack
              THEN \E listing \in Perms(FS[entry.target].children) :
                        Enter(caller, entry, path, Append(f.prefix, Extension(is_last)),
                              f.depth + 1, listing)
              ELSE /\ stack' = caller
                   /\ pc' = IF ShouldRecurse(entry) THEN "cut" ELSE pc
                   /\ UNCHANGED <<exc, tree>>
    /\ UNCHANGED <<fs, root_rel, config, run, first, ign_path, ign_result>>

\* return '\n'.join(output), and in the caller "if subtree: output.append".
\* The lines of a block are kept as a sequence, so that appending the
\* block and joining later is the concatenation of the lines.
Return ==
    /\ pc = "running"
    /\ Top.i > Len(Top.entries) \/ Top.broke
    /\ LET subtree == Top.output
           base == SubSeq(stack, 1, Len(stack) - 1)
       IN  IF base = <<>>
           THEN /\ stack' = <<>>
                /\ pc' = "done"
                /\ tree' = subtree
           ELSE /\ stack' = [base EXCEPT ![Len(base)] =
                                [@ EXCEPT !.output = @ \o subtree]]
                /\ UNCHANGED <<pc, tree>>
    /\ UNCHANGED <<fs, root_rel, config, file_count, dir_count, exc, run, first,
                   ign_path, ign_result>>

\* ------------------------------------------------------------ specification
NoRun == [tree |-> <<>>, dir_count |-> 0, file_count |-> 0]

\* TreeGenerator.__init__ on a configuration main built: the counters at 0
\* and, with --gitignore, the patterns of ./.gitignore loaded.
Constructed(c) ==
    IF c.use_gitignore
    THEN \E lines \in GitignoreFiles : \E order \in Perms(LoadGitignore(lines)) :
            config = [c EXCEPT !.gitignore_patterns = order]
    ELSE config = c

Init ==
    /\ fs \in 1..Len(FileSystems)
    /\ \E c \in Configs : Constructed(c)
    /\ root_rel \in (IF config.use_gitignore THEN RootPlacements ELSE {AtRoot})
    /\ file_count = 0
    /\ dir_count = 0
    /\ stack = <<>>
    /\ pc = "start"
    /\ exc = ""
    /\ tree = <<>>
    /\ run = 1
    /\ first = NoRun
    /\ ign_path = <<>>
    /\ ign_result = ""

Next == Start \/ Marker \/ Emit \/ Return

Spec == Init /\ [][Next]_vars

\* main run a second time on the same directory tree: a freshly constructed
\* TreeGenerator on the same configuration.
Rerun ==
    /\ pc = "done" /\ run = 1
    /\ first' = [tree |-> tree, dir_count |-> dir_count, file_count |-> file_count]
    /\ run' = 2
    /\ file_count' = 0
    /\ dir_count' = 0
    /\ stack' = <<>>
    /\ pc' = "start"
    /\ tree' = <<>>
    /\ UNCHANGED <<fs, root_rel, config, exc, ign_path, ign_result>>

NextTwice == Next \/ Rerun

SpecTwice == Init /\ [][NextTwice]_vars

\* The ignore policy on its own: _should_ignore applied to one path under
\* one configuration.
IgnorePaths ==
    {<< <<"g">> >>, << <<".", "h">> >>, << <<"d">>, <<"x">> >>, << <<"d">>, <<"n">> >>,
     << <<"d">>, <<"c", ".", "o">> >>, << <<"e">> >>, << <<"y">> >>}

InitIgnore ==
    /\ fs = 1
    /\ \E c \in IgnoreConfigs : Constructed(c)
    /\ root_rel \in RootPlacements
    /\ ign_path \in IgnorePaths
    /\ ign_result = ""
    /\ file_count = 0
    /\ dir_count = 0
    /\ stack = <<>>
    /\ pc = "ignore"
    /\ exc = ""
    /\ tree = <<>>
    /\ run = 1
    /\ first = NoRun

ApplyIgnore ==
    /\ pc = "ignore" /\ ign_result = ""
    /\ ign_result' = ShouldIgnore(ign_path)
    /\ UNCHANGED <<fs, root_rel, config, file_count, dir_count, stack, pc, exc,
                   tree, run, first, ign_path>>

NextIgnore == ApplyIgnore

SpecIgnore == InitIgnore /\ [][NextIgnore]_vars

\* ------------------------------------------------------------- observations
\* The lines of the blocks under construction, in the order of emission.
RECURSIVE Blocks(_)
Blocks(frames) ==
    IF frames = <<>> THEN <<>> ELSE Head(frames).output \o Blocks(Tail(frames))

\* Every line emitted so far in the run.
Emitted == IF pc = "done" THEN tree ELSE Blocks(stack)

IsEntryLine(l) == l.kind = "entry"
IsFileLine(l) == l.kind = "entry" /\ ~l.text.slash
IsDirLine(l) == l.kind = "entry" /\ l.text.slash
IsLimitLine(l) == l.kind = "limit"

FileLines(lines) == Len(SelectSeq(lines, IsFileLine))
DirLines(lines) == Len(SelectSeq(lines, IsDirLine))
EntryLines(lines) == Len(SelectSeq(lines, IsEntryLine))
LimitLines(lines) == Len(SelectSeq(lines, IsLimitLine))

\* main, "Print summary": the numbers of the last line (None: not printed).
Summary ==
    [directories |-> dir_count,
     files |-> IF config.dirs_only THEN None ELSE file_count]

\* ------------------------------------------------------------------- claims
\* C1: with maxFiles = m set, in every state of a run the number of file
\* entry lines emitted so far over all calls is at most m, and
\* file_count <= m.
C1_FileBudget ==
    config.max_files # None =>
        /\ FileLines(Emitted) <= config.max_files
        /\ file_count <= config.max_files

\* C1 witness: a finished run that used up a budget of 2 on a tree that
\* holds more files, so the cap cut the listing short.
C1_Witness ==
    /\ pc = "done" /\ fs = 1 /\ config.max_files = 2
    /\ FileLines(tree) = 2 /\ LimitLines(tree) >= 1

\* C2: with maxDepth = k no entry line is emitted for a child of a
\* directory of depth >= k: every call that lists has depth < k, every
\* emitted line has at most k-1 continuation segments, and with k = 0
\* nothing is emitted.
C2_DepthLimit ==
    config.max_depth # None =>
        /\ \A j \in 1..Len(stack) : stack[j].depth < config.max_depth
        /\ \A j \in 1..Len(Emitted) : Len(Emitted[j].prefix) <= config.max_depth - 1
        /\ (config.max_depth = 0 => Emitted = <<>>)

\* C2 witness: a finished run with maxDepth = 2 on the nested tree: lines
\* of depth 1 are there, the directories n and w are printed, their
\* children are not.
C2_Witness ==
    /\ pc = "done" /\ fs = 1 /\ config.max_depth = 2
    /\ \E j \in 1..Len(tree) : Len(tree[j].prefix) = 1
    /\ dir_count = 4 /\ file_count = 4

\* State part of C5: the counters equal the numbers of directory and file
\* entry lines emitted so far (markers are not counted), and the summary
\* reports the numbers of lines of the printed tree.
C5_CountersInv ==
    /\ dir_count = DirLines(Emitted)
    /\ file_count = FileLines(Emitted)
    /\ pc = "done" =>
        /\ Summary.directories = DirLines(tree)
        /\ (~config.dirs_only => Summary.files = FileLines(tree))

\* Step part of C5: what one step does to the counters.
C5_CountersStep ==
    /\ dir_count' >= dir_count /\ file_count' >= file_count
    /\ \/ /\ EntryLines(Emitted') = EntryLines(Emitted) + 1
          /\ \/ dir_count' = dir_count + 1 /\ file_count' = file_count
             \/ dir_count' = dir_count /\ file_count' = file_count + 1
       \/ /\ EntryLines(Emitted') = EntryLines(Emitted)
          /\ dir_count' = dir_count /\ file_count' = file_count

\* C5: file_count and dir_count never decrease; after every step they
\* equal the numbers of file and directory entry lines emitted so far;
\* every step that emits an entry line raises exactly one of them by
\* exactly one and no other step changes them; so the summary reports the
\* numbers of directory and file lines of the printed tree.
C5_Counters == []C5_CountersInv /\ [][C5_CountersStep]_vars

\* C5 witness: a finished run that printed directories, files and a limit
\* marker, the marker not being counted.
C5_Witness ==
    /\ pc = "done" /\ dir_count >= 2 /\ file_count >= 2
    /\ LimitLines(tree) >= 1
    /\ Len(tree) = dir_count + file_count + LimitLines(tree)

\* The sort key as the claim words it: the case-insensitive name, the size
\* with 0 for directories, or the modification time.
ClaimKey(e) ==
    CASE config.sort_by = "name" -> [i \in 1..Len(e.name) |-> Code(LowerChar(e.name[i]))]
      [] config.sort_by = "size" -> (IF IsDir(e) THEN <<0>> ELSE <<FS[e.target].size>>)
      [] config.sort_by = "modified" -> <<FS[e.target].mtime>>

\* a and b, in this order, respect the configured direction.
InOrder(a, b) ==
    IF config.reverse_sort THEN ~KeyLess(ClaimKey(a), ClaimKey(b))
    ELSE ~KeyLess(ClaimKey(b), ClaimKey(a))

\* C3: when neither dirsOnly nor filesOnly is set, in every sibling list
\* the listing returned every directory precedes every file, and inside
\* the directories and inside the files the keys are non-decreasing, or
\* non-increasing with reverseSort.
C3_Grouping ==
    (~config.dirs_only /\ ~config.files_only) =>
        \A k \in 1..Len(stack) :
            LET es == stack[k].entries IN
            \A i \in 1..Len(es) : \A j \in 1..Len(es) :
                i < j =>
                    /\ IsDir(es[i]) \/ IsFile(es[i])
                    /\ ~(IsFile(es[i]) /\ IsDir(es[j]))
                    /\ (IsDir(es[i]) = IsDir(es[j])) => InOrder(es[i], es[j])

\* C3 witness: a list of two directories and two files sorted by size in
\* reverse, the files of different sizes.
C3_Witness ==
    /\ ~config.dirs_only /\ ~config.files_only
    /\ config.sort_by = "size" /\ config.reverse_sort
    /\ \E k \in 1..Len(stack) :
        LET es == stack[k].entries IN
        /\ Len(es) = 4 /\ IsDir(es[2]) /\ IsFile(es[3])
        /\ KeyLess(ClaimKey(es[4]), ClaimKey(es[3]))

\* The number of entry lines of the block's own directory among the first
\* p lines of the block of frame f.
OwnBefore(f, p) ==
    Cardinality({q \in 1..p : f.output[q].kind = "entry"
                              /\ Len(f.output[q].prefix) = Len(f.prefix)})

\* C4: in every sibling list an entry line has the elbow connector iff its
\* entry is the last of the list, the tee otherwise; and every line of the
\* subtree of a directory entry carries, at that level, the blank
\* continuation iff the directory was the last of its list, the vertical
\* pipe otherwise (the same for the prefix of a call still running).
C4_Connectors ==
    \A k \in 1..Len(stack) :
        LET f == stack[k]
            d == Len(f.prefix)
            n == Len(f.entries)
        IN  /\ \A p \in 1..Len(f.output) :
                LET l == f.output[p]
                    own == OwnBefore(f, p)
                IN  /\ SubSeq(l.prefix, 1, d) = f.prefix
                    /\ (l.kind = "entry" /\ Len(l.prefix) = d) =>
                        /\ l.text.name[Len(l.text.name)] = f.entries[own].name
                        /\ l.connector = (IF own = n THEN ELBOW ELSE TEE)
                    /\ Len(l.prefix) > d =>
                        /\ own >= 1 /\ IsDir(f.entries[own])
                        /\ l.prefix[d + 1] = (IF own = n THEN BLANK ELSE PIPE)
            /\ k < Len(stack) =>
                /\ IsDir(f.entries[f.i - 1])
                /\ stack[k + 1].prefix =
                      Append(f.prefix, IF f.i - 1 = n THEN BLANK ELSE PIPE)

\* C4 witness: a finished block of the root in which one subtree hangs
\* under a directory that is not the last entry and, below it, a line
\* under a directory that is the last of its own list.
C4_Witness ==
    /\ pc = "running" /\ Len(stack) = 1
    /\ stack[1].i > Len(stack[1].entries)
    /\ \E p \in 1..Len(stack[1].output) :
        /\ stack[1].output[p].prefix = <<PIPE, BLANK>>
        /\ stack[1].output[p].connector = ELBOW
    /\ \E p \in 1..Len(stack[1].output) :
        /\ stack[1].output[p].prefix = <<>>
        /\ stack[1].output[p].connector = TEE

\* The calls on the stack whose loop has entries left and has not broken.
Pending == Cardinality({k \in 1..Len(stack) :
                          stack[k].i <= Len(stack[k].entries) /\ ~stack[k].broke})

OwnLimitLines(f) ==
    Cardinality({p \in 1..Len(f.output) : f.output[p].kind = "limit"
                                          /\ Len(f.output[p].prefix) = Len(f.prefix)})

\* State part of C9 (maxFiles = m >= 1): a directory whose loop broke on the
\* budget check has exactly one marker, <prefix> elbow, as the last line
\* of its block, has entries left and is not processing any; a directory
\* whose loop did not break has no marker; and no marker exists while the
\* budget is not used up.
C9_MarkerInv ==
    (config.max_files # None /\ config.max_files >= 1) =>
        /\ \A k \in 1..Len(stack) :
            LET f == stack[k] IN
            /\ f.broke =>
                /\ k = Len(stack)
                /\ f.i <= Len(f.entries)
                /\ OwnLimitLines(f) = 1
                /\ f.output[Len(f.output)] =
                      [kind |-> "limit", prefix |-> f.prefix,
                       connector |-> ELBOW, text |-> LimitText]
                /\ file_count >= config.max_files
            /\ ~f.broke => OwnLimitLines(f) = 0
        /\ file_count < config.max_files => LimitLines(Emitted) = 0

\* Step part of C9: once file_count has reached m no step emits an entry
\* line, and every marker emitted is that of one call on the stack that
\* had entries left, each such call emitting one.
C9_MarkerStep ==
    (config.max_files # None /\ config.max_files >= 1
        /\ file_count >= config.max_files) =>
        /\ EntryLines(Emitted') = EntryLines(Emitted)
        /\ LimitLines(Emitted') + Pending' = LimitLines(Emitted) + Pending
        /\ pc' = "done" => Pending' = 0

\* C9: with maxFiles = m >= 1, a directory whose budget check fires emits
\* exactly one marker line, as the last line of its block, and processes
\* none of its remaining entries; a directory whose list ends without the
\* check firing emits no marker; so each directory (each path generate is
\* called on) emits at most one marker, and once file_count has reached m
\* no entry line is emitted any more: the only later lines are markers,
\* one for each call on the stack that still has entries left.
C9_LimitMarkers == []C9_MarkerInv /\ [][C9_MarkerStep]_vars

\* C9 witness: a finished run with a budget of 2 in which the budget ran
\* out inside a subdirectory: two markers, one of the subdirectory and one
\* of the root, and no entry line after the first marker.
C9_Witness ==
    /\ pc = "done" /\ config.max_files = 2 /\ file_count = 2
    /\ LimitLines(tree) = 2
    /\ tree[Len(tree)].kind = "limit" /\ tree[Len(tree)].prefix = <<>>
    /\ tree[Len(tree) - 1].kind = "limit" /\ tree[Len(tree) - 1].prefix = <<PIPE>>

\* The run is over: generate returned or an exception left it.
Terminated == pc \in {"done", "raised"}

\* State part of C10: with followLinks false no running call was entered
\* through an entry that is a symbolic link, and with maxDepth = k no call
\* runs deeper than k.
C10_RecursionInv ==
    /\ ~config.follow_links =>
        \A k \in 1..(Len(stack) - 1) : ~IsSymlink(stack[k].entries[stack[k].i - 1])
    /\ config.max_depth # None =>
        /\ Len(stack) <= config.max_depth
        /\ \A k \in 1..Len(stack) : stack[k].depth = k - 1

\* A measure of the work done: two per line emitted, one per call that
\* has returned.
Progress ==
    2 * Len(Emitted) - Len(stack) - (IF pc = "start" THEN 2 ELSE 0)

\* C10: on these file systems, those with symbolic link cycles included,
\* a run ends whenever maxDepth is set or followLinks is false: the calls
\* are nested as the state part says, the recursion never has to go on
\* beyond the depth the model follows, a run that has not ended can always
\* take its next step, and every step advances the measure.
C10_Termination ==
    /\ [](/\ C10_RecursionInv
          /\ (config.max_depth # None \/ ~config.follow_links) => pc # "cut"
          /\ pc = "running" => stack # <<>>)
    /\ [][Progress' > Progress]_vars

\* C10 witness: a finished run over the tree with the link cycles, links
\* not followed and no depth limit: the two directory lines are the link l
\* and the directory d, and d's link m was printed and counted too.
C10_Witness ==
    /\ pc = "done" /\ fs = 3 /\ ~config.follow_links /\ config.max_depth = None
    /\ config.max_files = None /\ ~config.files_only /\ config.sort_by = "name"
    /\ dir_count = 3
    /\ \E j \in 1..Len(tree) : tree[j].text.name = << <<"l">> >> /\ tree[j].text.slash

\* C6: two runs, each with a fresh renderer, on the same configuration
\* and the same unchanged directory tree print the same lines in the same
\* order and end with the same counters, whatever the order in which the
\* listing yields the children of a directory.
C6_SameOutput ==
    (run = 2 /\ pc = "done") =>
        /\ tree = first.tree
        /\ dir_count = first.dir_count
        /\ file_count = first.file_count

\* C7: no failure of a directory listing and no failure of a metadata read
\* leaves generate: the run never ends with the exception of one.
C7_NoFailureEscapes ==
    ~(pc = "raised" /\ exc \in {"OSError", "FileNotFoundError"})

\* The pattern with one trailing '/' stripped, as the claim words it.
StripSlash(p) ==
    IF Len(p) > 0 /\ p[Len(p)] = "/" THEN SubSeq(p, 1, Len(p) - 1) ELSE p

\* The result the claim gives the ignore policy for a path; the relative
\* path is matched against the pattern as stripped.
ClaimedIgnore(path) ==
    LET name == path[Len(path)]
        pats == config.gitignore_patterns
    IN  \/ ~config.show_hidden /\ Len(name) > 0 /\ name[1] = "."
        \/ \E i \in 1..Len(config.custom_ignore) : fnmatch(name, config.custom_ignore[i])
        \/ /\ config.use_gitignore
           /\ \E i \in 1..Len(pats) :
                \/ fnmatch(name, StripSlash(pats[i]))
                \/ /\ Contains(pats[i], "/")
                   /\ root_rel.under
                   /\ fnmatch(JoinPath(root_rel.rel \o path), StripSlash(pats[i]))

\* C8: for every entry and configuration the ignore policy returns a
\* boolean without failing, also when the tree root is not under the
\* working directory, and the boolean is the one the three rules give.
C8_IgnorePolicy ==
    ign_result # "" =>
        /\ ign_result \in {"True", "False"}
        /\ ign_result = (IF ClaimedIgnore(ign_path) THEN "True" ELSE "False")

====
